---- MODULE Spec2Model ----
(***************************************************************************)
(* Model of the perf-core profiler (src/perf/perf-core/src/lib.rs): the    *)
(* global trace table, the call-stack tracker CURRENT_TRACE, the order     *)
(* counter TRACE_ID, the memoized CPU frequency and start timestamp, the   *)
(* ScopedTrace guard (new / Drop) and begin_profile /                      *)
(* end_and_print_profile.                                                  *)
(*                                                                         *)
(* Time: `clock' is the last value returned by read_cpu_timer (rdtsc).     *)
(* Every read advances the counter by some d in Steps and returns the new  *)
(* value, so two successive reads differ by at least one cycle.            *)
(*                                                                         *)
(* Option<T> is modelled as a sequence: None is << >>, Some(x) is <<x>>.   *)
(***************************************************************************)
EXTENDS Integers, Sequences, FiniteSets, TLC

\* ---------------------------------------------------------------- bounds
MaxClock == 7          \* largest cycle-counter value explored
MaxStep == 2           \* largest advance of the counter between two reads
MaxDepth == 3          \* largest number of simultaneously live guards
MaxBeginCalls == 2     \* begin_profile calls explored per run
MaxEndCalls == 2       \* end_and_print_profile calls explored per run
MaxOsOvershoot == 1     \* OS ticks by which the busy-wait may overshoot
MaxCpuElapsed == 9       \* largest cycle delta given to the estimate
MaxOsElapsed == 7        \* largest wall-clock delta given to the estimate
MaxPerfCalls == 3        \* calls of trace_begin, trace_end and trace_stats
MaxGarbage == 1          \* largest value read through a missing timestamp
MaxWs == 1               \* longest run of whitespace around a JSON token
MaxMillis == 3           \* largest millis_to_wait given to the busy-wait
MaxOsNow == 6            \* largest OS timer value explored
MaxIterations == 2       \* most iterations of the instrumented loop

Steps == 1..MaxStep

\* ------------------------------------------------------- program constants
\* get_os_timer_freq(): OS timer ticks per second.  The source counts
\* nanoseconds (10^9 per second); the model counts milliseconds so that the
\* products of estimate_cpu_freq stay inside TLC's integers.
get_os_timer_freq == 1000
\* the argument of estimate_cpu_freq in cpu_freq()
CalibrationMillis == 100

\* ------------------------------------------------------------ Option<T>
None == << >>
Some(x) == << x >>

\* ------------------------------------------------------- span identities
\* A &'static str: the address of the literal and its content.
Str(ptr, text) == [ptr |-> ptr, text |-> text]

\* variant: strings are compared by address and content
StrKey_Pointer(str) == str

\* PartialEq, Eq and Hash of &str (derived for TraceType and TraceId, lines
\* 41 and 48): what is compared and hashed is the content
StrKey(str) == str.text

\* the string literals of the instrumented program: two literals "f" at
\* different addresses, "g", two literals "x", "y"
StrF == Str(1, "f")
StrF2 == Str(2, "f")
StrG == Str(3, "g")
StrX == Str(4, "x")
StrX2 == Str(5, "x")
StrY == Str(6, "y")
\* the label of a span that has none
StrNone == Str(0, "")

\* enum TraceType { Fn, Loop(&str), Section(&str) }; Fn carries no label.
TraceTypeFn == [tag |-> "Fn", name |-> StrKey(StrNone)]
TraceTypeLoop(lname) == [tag |-> "Loop", name |-> StrKey(lname)]

\* variant: a section is given the tag of a loop
TraceTypeSection_AsLoop(sname) == [tag |-> "Loop", name |-> StrKey(sname)]

TraceTypeSection(sname) == [tag |-> "Section", name |-> StrKey(sname)]

\* struct TraceId { enclosing_function_name, ty }, compared structurally.
TraceId(fn_name, ty) ==
    [enclosing_function_name |-> StrKey(fn_name), ty |-> ty]

\* A call site of new_fn / new_loop / new_section with its arguments.
SiteFn(fn_name) == [tag |-> "Fn", fn_name |-> fn_name, label |-> StrNone]
SiteLoop(fn_name, loop_name) ==
    [tag |-> "Loop", fn_name |-> fn_name, label |-> loop_name]
SiteSection(fn_name, section_name) ==
    [tag |-> "Section", fn_name |-> fn_name, label |-> section_name]

\* the TraceId built at a call site (lines 157-179)
SiteId(site) ==
    TraceId(site.fn_name,
            CASE site.tag = "Fn" -> TraceTypeFn
              [] site.tag = "Loop" -> TraceTypeLoop(site.label)
              [] OTHER -> TraceTypeSection(site.label))

\* the function name, kind and label written at a call site
SiteTriple(site) == << site.fn_name.text, site.tag, site.label.text >>

\* the call sites of the program explored by Spec: one function with a
\* function span, a loop span and a section span of the same label
DefaultSites == {SiteFn(StrF), SiteLoop(StrF, StrX), SiteSection(StrF, StrX)}

\* a function span and a loop span
TwoSites == {SiteFn(StrF), SiteLoop(StrF, StrX)}

\* programs with two call sites: the same identity written twice, then
\* identities differing in the function name, the kind, the label
SiteSets ==
    { {SiteFn(StrF), SiteFn(StrF2)},
      {SiteLoop(StrF, StrX), SiteLoop(StrF2, StrX2)},
      {SiteFn(StrF), SiteFn(StrG)},
      {SiteLoop(StrF, StrX), SiteSection(StrF, StrX)},
      {SiteSection(StrF, StrX), SiteSection(StrF, StrY)} }

VARIABLES
    clock,          \* last value returned by read_cpu_timer
    CURRENT_TRACE,  \* Option<TraceId>: the call-stack tracker
    TRACE_ID,       \* usize: the order counter
    trace_map,      \* HashMap<TraceId, Trace>: function on the keys present
    map_init,       \* whether the OnceCell holding the HashMap is set
    cpu_freq_cell,  \* OnceCell<u64> of cpu_freq()
    start_ts_cell,  \* OnceCell<u64> of start_ts()
    guards,         \* live ScopedTrace values, innermost last
    stdout,         \* lines printed by end_and_print_profile
    drop_panicked,  \* an unwrap() in Drop found no entry
    hist,           \* history of the run (observations only)
    sites,          \* the ScopedTrace call sites of the program
    calib,          \* one run of estimate_cpu_freq: timer deltas and result
    debug_assertions, \* perf.rs: whether the build keeps debug_assert!
    TRACE_MAP,      \* perf.rs: Mutex<HashMap<&str, Trace>>, function on keys
    TRACE_ORDER,    \* perf.rs: Mutex<Vec<&str>>
    CPU_FREQ,       \* perf.rs: the lazily initialized frequency
    poisoned,       \* perf.rs: a panic happened while TRACE_MAP was locked
    perf_stdout,    \* perf.rs: lines printed by trace_stats
    perf_hist,      \* perf.rs: history of the calls (observations only)
    json,           \* deserializer.rs: an input text and the parser's result
    wait,           \* estimate_cpu_freq step by step: its locals and position
    prog            \* an instrumented function with a loop: its position

\* the state of perf-core, the counter apart
profiler_vars == << CURRENT_TRACE, TRACE_ID, trace_map, map_init,
                    cpu_freq_cell, start_ts_cell, guards, stdout,
                    drop_panicked, hist, sites >>

\* the state of src/perf.rs, the counter apart
perf_vars == << debug_assertions, TRACE_MAP, TRACE_ORDER, CPU_FREQ, poisoned,
                perf_stdout, perf_hist >>

vars == << clock, profiler_vars, calib, perf_vars, json, wait, prog >>

\* what ScopedTrace::new and drop leave alone, the caller's position apart
rest_vars == << sites, calib, perf_vars, json, wait >>

\* what the profiler operations leave alone
other_vars == << rest_vars, prog >>

\* the identities of the program's call sites
TraceIds == {SiteId(site) : site \in sites}

\* ------------------------------------------------------------- helpers
RECURSIVE SumOver(_, _)
\* sum of f[x] over the finite set S
SumOver(f, S) ==
    IF S = {} THEN 0
    ELSE LET x == CHOOSE y \in S : TRUE IN f[x] + SumOver(f, S \ {x})

\* the ids of the live guards
LiveIds == {guards[i].trace_id : i \in 1..Len(guards)}

\* ------------------------------------------------------------- Trace
\* variant: the counter is read without being incremented
NextTraceId_NoIncrement(counter) == counter

\* impl Default for Trace, lines 83-87: `*id += 1; *id'
NextTraceId(counter) == counter + 1

\* impl Default for Trace: zero counters, order = ++TRACE_ID.
DefaultTrace(counter) ==
    [elapsed_exclusive |-> 0, elapsed_inclusive |-> 0, hit_count |-> 0,
     order |-> NextTraceId(counter)]

\* trace_map.entry(trace_id).or_default(): the map after the call
EntryOrDefault(tm, trace_id, counter) ==
    IF trace_id \in DOMAIN tm THEN tm
    ELSE [k \in DOMAIN tm \cup {trace_id} |->
             IF k = trace_id THEN DefaultTrace(counter) ELSE tm[k]]

\* TRACE_ID after trace_map.entry(trace_id).or_default()
CounterAfterEntry(tm, trace_id, counter) ==
    IF trace_id \in DOMAIN tm THEN counter ELSE NextTraceId(counter)

\* variant: the map is created anew on every access
TraceMapGetOrInit_Recreated(init, tm) == << >>

\* trace_map(), lines 30-34: get_mut_or_init(|| HashMap::with_capacity(4096)),
\* the stored map once the cell is set, a new empty map before
TraceMapGetOrInit(init, tm) == IF init THEN tm ELSE << >>

\* variant: hit_count is not incremented
DropOwn_NoHit(trace, old_elapsed_inclusive, time) ==
    [trace EXCEPT !.elapsed_exclusive = @ + time,
                  !.elapsed_inclusive = old_elapsed_inclusive + time]

\* variant: elapsed_inclusive is reset to the latest duration
DropOwn_InclusiveLatestOnly(trace, old_elapsed_inclusive, time) ==
    [trace EXCEPT !.elapsed_exclusive = @ + time,
                  !.hit_count = @ + 1,
                  !.elapsed_inclusive = time]

\* variant: elapsed_exclusive is overwritten instead of accumulated
DropOwn_ExclusiveOverwritten(trace, old_elapsed_inclusive, time) ==
    [trace EXCEPT !.elapsed_exclusive = time,
                  !.hit_count = @ + 1,
                  !.elapsed_inclusive = old_elapsed_inclusive + time]

\* variant: elapsed_inclusive is not updated
DropOwn_NoInclusive(trace, old_elapsed_inclusive, time) ==
    [trace EXCEPT !.elapsed_exclusive = @ + time,
                  !.hit_count = @ + 1]

\* variant: elapsed_inclusive grows from its current value, not the saved one
DropOwn_InclusiveFromCurrent(trace, old_elapsed_inclusive, time) ==
    [trace EXCEPT !.elapsed_exclusive = @ + time,
                  !.hit_count = @ + 1,
                  !.elapsed_inclusive = @ + time]

\* Drop, lines 186-189: the guard's own entry
DropOwn(trace, old_elapsed_inclusive, time) ==
    [trace EXCEPT !.elapsed_exclusive = @ + time,
                  !.hit_count = @ + 1,
                  !.elapsed_inclusive = old_elapsed_inclusive + time]

\* variant: the parent is not corrected
DropParent_NoSubtract(tm, parent, time) == tm

\* variant: the duration is added to the parent
DropParent_Adds(tm, parent, time) ==
    IF parent = None THEN tm
    ELSE [tm EXCEPT ![parent[1]].elapsed_exclusive = @ + time]

\* variant: the duration is subtracted from the parent's other field
DropParent_WrongField(tm, parent, time) ==
    IF parent = None THEN tm
    ELSE [tm EXCEPT ![parent[1]].elapsed_inclusive = @ - time]

\* Drop, lines 192-197: the captured parent's entry
DropParent(tm, parent, time) ==
    IF parent = None THEN tm
    ELSE [tm EXCEPT ![parent[1]].elapsed_exclusive = @ - time]

\* ------------------------------------------------------- memoized cells
\* estimate_cpu_freq, line 114
OsWaitTime(os_freq, millis_to_wait) == (os_freq * millis_to_wait) \div 1000

\* variant: the quotient is rounded to the nearest integer
EstimateCpuFreq_Rounded(os_freq, cpu_elapsed, os_elapsed) ==
    (2 * os_freq * cpu_elapsed + os_elapsed) \div (2 * os_elapsed)

\* estimate_cpu_freq, line 122
EstimateCpuFreq(os_freq, cpu_elapsed, os_elapsed) ==
    (os_freq * cpu_elapsed) \div os_elapsed

\* estimate_cpu_freq(millis_to_wait) started when the counter shows clk: the
\* possible results.  cpu_start is read d0 cycles later, the busy-wait ends
\* once os_elapsed has reached the wait time, cpu_end is cpu_elapsed later.
estimate_cpu_freq(millis_to_wait, clk) ==
    {[freq |-> EstimateCpuFreq(get_os_timer_freq, cpu_elapsed,
                   OsWaitTime(get_os_timer_freq, millis_to_wait) + over),
      clock |-> clk + d0 + cpu_elapsed] :
        d0 \in Steps, cpu_elapsed \in Steps, over \in 0..MaxOsOvershoot}

\* cpu_freq(): OnceCell::get_or_init(|| estimate_cpu_freq(100)).  The
\* possible outcomes: the cell and the counter after the call, and whether
\* the estimation ran.
cpu_freq(cell, clk) ==
    IF cell # None
    THEN {[cell |-> cell, clock |-> clk, estimated |-> FALSE]}
    ELSE {[cell |-> Some(e.freq), clock |-> e.clock, estimated |-> TRUE] :
             e \in estimate_cpu_freq(CalibrationMillis, clk)}

\* variant: the timer is read on every call
start_ts_NotMemoized(cell, clk) ==
    {[cell |-> Some(clk + d), clock |-> clk + d] : d \in Steps}

\* start_ts(): OnceCell::get_or_init(|| read_cpu_timer()).  The possible
\* outcomes: the cell and the counter after the call.
start_ts(cell, clk) ==
    IF cell # None
    THEN {[cell |-> cell, clock |-> clk]}
    ELSE {[cell |-> Some(clk + d), clock |-> clk + d] : d \in Steps}

\* ------------------------------------------------------------- history
HistInit ==
    [dropped      |-> [id \in TraceIds |-> 0],     \* guards dropped, per id
     own_time     |-> [id \in TraceIds |-> 0],     \* sum of their durations
     last_time    |-> [id \in TraceIds |-> 0],     \* duration of the latest
     child_time   |-> [id \in TraceIds |-> 0],     \* durations of guards that
                                                   \* exited with id as parent
     child_ids    |-> [id \in TraceIds |-> {}],    \* ids of those guards
     child_exits  |-> [id \in TraceIds |-> 0],     \* their number
     times        |-> [id \in TraceIds |-> {}],    \* set of durations of id
     parents      |-> [id \in TraceIds |-> {}],    \* captured parents of id
     reentered    |-> [id \in TraceIds |-> FALSE], \* ever entered while live
     outer_incl   |-> [id \in TraceIds |-> 0],     \* elapsed_inclusive at the
                                                   \* latest outermost entry
     outer_reent  |-> [id \in TraceIds |-> FALSE], \* re-entered during the
                                                   \* latest outermost call
     outer_time   |-> [id \in TraceIds |-> 0],     \* duration of the latest
                                                   \* completed outermost call
     root_begin   |-> 0,                           \* begin of the latest guard
                                                   \* created with none live
     root_end     |-> 0,                           \* counter when the latest
                                                   \* such guard was dropped
     root_drops   |-> 0,                           \* dropped guards, parent None
     root_time    |-> 0,                           \* sum of their durations
     first_seen   |-> << >>,                       \* ids in first-entry order
     used         |-> {},                          \* call sites executed
     trackers     |-> << >>,                       \* per live guard, the
                                                   \* tracker before its new()
     last_drop    |-> None,                        \* the latest drop
     calibration  |-> None,                        \* counter at the start and
                                                   \* the end of the estimate
     failed_start |-> None,                        \* start timestamp read by
                                                   \* a failed report call
     begin_calls  |-> 0,
     last_begin   |-> None,                        \* latest begin_profile call
     end_calls    |-> 0,
     estimates    |-> 0,                           \* runs of estimate_cpu_freq
     last_end     |-> None]                        \* latest end_and_print call

\* estimate_cpu_freq not run on its own
CalibIdle == calib = [cpu_elapsed |-> 0, os_elapsed |-> 0, result |-> None]

PerfHistInit ==
    [calls |-> 0,      \* calls made
     begun |-> {},     \* ids whose trace_begin returned
     ended |-> {},     \* ids for which trace_end recorded a timestamp
     last  |-> None]   \* the latest call: operation, id, whether it panicked

\* src/perf.rs: the lazy statics, lines 6-10, nothing called yet
PerfStatics ==
    /\ TRACE_MAP = << >>
    /\ TRACE_ORDER = << >>
    /\ CPU_FREQ = None
    /\ poisoned = FALSE
    /\ perf_stdout = << >>
    /\ perf_hist = PerfHistInit

PerfIdle == debug_assertions = FALSE /\ PerfStatics

\* estimate_cpu_freq not run step by step
WaitIdle ==
    wait = [pc |-> "idle", millis_to_wait |-> 0, os_now |-> 0,
            cpu_start |-> 0, os_start |-> 0, os_elapsed |-> 0,
            os_wait_time |-> 0, result |-> None]

\* no instrumented function running
ProgIdle ==
    prog = [pc |-> "idle", iterations |-> 0, done |-> 0, calls |-> 0,
            iterated |-> 0]

\* no text given to the parser
JsonIdle ==
    json = [keys |-> << >>, vals |-> << >>, input |-> << >>, result |-> None]

Init ==
    /\ CalibIdle /\ PerfIdle /\ JsonIdle /\ WaitIdle /\ ProgIdle
    /\ sites = DefaultSites
    /\ clock = 0
    /\ CURRENT_TRACE = None
    /\ TRACE_ID = 0
    /\ trace_map = << >>
    /\ map_init = FALSE
    /\ cpu_freq_cell = None
    /\ start_ts_cell = None
    /\ guards = << >>
    /\ stdout = << >>
    /\ drop_panicked = FALSE
    /\ hist = HistInit

\* ------------------------------------------------------- ScopedTrace::new
New(trace_id, site) ==
    /\ Len(guards) < MaxDepth
    /\ \E d \in Steps :
         LET begin == clock + d
             map == TraceMapGetOrInit(map_init, trace_map)
             tm == EntryOrDefault(map, trace_id, TRACE_ID)
             old_elapsed_inclusive == tm[trace_id].elapsed_inclusive
             parent == CURRENT_TRACE
             live == trace_id \in LiveIds
         IN /\ begin <= MaxClock
            /\ clock' = begin
            /\ trace_map' = tm
            /\ map_init' = TRUE
            /\ TRACE_ID' = CounterAfterEntry(map, trace_id, TRACE_ID)
            /\ CURRENT_TRACE' = Some(trace_id)
            /\ guards' = Append(guards,
                   [trace_id |-> trace_id, parent |-> parent, begin |-> begin,
                    old_elapsed_inclusive |-> old_elapsed_inclusive])
            /\ hist' = [hist EXCEPT
                   !.first_seen = IF trace_id \in DOMAIN map THEN @
                                  ELSE Append(@, trace_id),
                   !.used = @ \cup {site},
                   !.trackers = Append(@, CURRENT_TRACE),
                   !.parents[trace_id] = @ \cup {parent},
                   !.root_begin = IF guards = << >> THEN begin ELSE @,
                   !.reentered[trace_id] = @ \/ live,
                   !.outer_incl[trace_id] =
                       IF live THEN @ ELSE old_elapsed_inclusive,
                   !.outer_reent[trace_id] = live]
    /\ UNCHANGED << cpu_freq_cell, start_ts_cell, stdout, drop_panicked >>
    /\ UNCHANGED rest_vars

new_fn ==
    \E site \in sites :
        /\ site.tag = "Fn"
        /\ New(TraceId(site.fn_name, TraceTypeFn), site)
        /\ UNCHANGED prog

new_loop ==
    \E site \in sites :
        /\ site.tag = "Loop"
        /\ New(TraceId(site.fn_name, TraceTypeLoop(site.label)), site)
        /\ UNCHANGED prog

new_section ==
    \E site \in sites :
        /\ site.tag = "Section"
        /\ New(TraceId(site.fn_name, TraceTypeSection(site.label)), site)
        /\ UNCHANGED prog

\* ------------------------------------------------ impl Drop for ScopedTrace
\* the guards without the one at position i
Without(gs, i) == SubSeq(gs, 1, i - 1) \o SubSeq(gs, i + 1, Len(gs))

\* variant: the tracker is cleared
RestoreTracker_Cleared(parent) == None

\* Drop, lines 190-191: the tracker becomes the captured parent
RestoreTracker(parent) == parent

\* drop of the guard at position i of the live guards.  The entry of the
\* guard's identity is looked up before the timer is read (line 185), the
\* parent's entry after the tracker is restored (lines 192-197); a failed
\* unwrap() panics.
DropAt(i) ==
    /\ i \in 1..Len(guards)
    /\ \E d \in Steps :
         LET self == guards[i]
             id == self.trace_id
             now == clock + d
             time == now - self.begin
             map == TraceMapGetOrInit(map_init, trace_map)
             own_found == id \in DOMAIN map
             parent_found == self.parent # None =>
                                 self.parent[1] \in DOMAIN map
             rest == Without(guards, i)
             outermost == \A j \in 1..Len(rest) : rest[j].trace_id # id
         IN /\ now <= MaxClock
            /\ clock' = now
            /\ guards' = rest
            /\ IF own_found /\ parent_found
               THEN /\ trace_map' =
                         DropParent(
                             [map EXCEPT ![id] =
                                 DropOwn(@, self.old_elapsed_inclusive, time)],
                             self.parent, time)
                    /\ CURRENT_TRACE' = RestoreTracker(self.parent)
                    /\ UNCHANGED drop_panicked
               ELSE IF own_found
               THEN /\ drop_panicked' = TRUE
                    /\ trace_map' =
                         [map EXCEPT ![id] =
                             DropOwn(@, self.old_elapsed_inclusive, time)]
                    /\ CURRENT_TRACE' = RestoreTracker(self.parent)
               ELSE /\ drop_panicked' = TRUE
                    /\ trace_map' = map
                    /\ UNCHANGED CURRENT_TRACE
            /\ hist' = [hist EXCEPT
                   !.dropped[id] = @ + 1,
                   !.own_time[id] = @ + time,
                   !.last_time[id] = time,
                   !.times[id] = @ \cup {time},
                   !.outer_time[id] = IF outermost THEN time ELSE @,
                   !.child_time = IF self.parent = None THEN @
                       ELSE [@ EXCEPT ![self.parent[1]] = @ + time],
                   !.child_ids = IF self.parent = None THEN @
                       ELSE [@ EXCEPT ![self.parent[1]] = @ \cup {id}],
                   !.child_exits = IF self.parent = None THEN @
                       ELSE [@ EXCEPT ![self.parent[1]] = @ + 1],
                   !.root_end = IF rest = << >> THEN now ELSE @,
                   !.root_drops = IF self.parent = None THEN @ + 1 ELSE @,
                   !.root_time = IF self.parent = None THEN @ + time ELSE @,
                   !.last_drop = Some([guard |-> self, time |-> time,
                                       innermost |-> i = Len(guards),
                                       before |-> hist.trackers[i]]),
                   !.trackers = Without(@, i)]
    /\ map_init' = TRUE
    /\ UNCHANGED << TRACE_ID, cpu_freq_cell, start_ts_cell, stdout >>
    /\ UNCHANGED rest_vars

\* Guards are dropped innermost first (well-nested use).
Drop == DropAt(Len(guards)) /\ UNCHANGED prog

\* ------------------------------------------------------------ lifecycle
\* begin_profile: cpu_freq(), trace_map(), start_ts(), in this order.
begin_profile ==
    /\ hist.begin_calls < MaxBeginCalls
    /\ \E f \in cpu_freq(cpu_freq_cell, clock) :
         \E s \in start_ts(start_ts_cell, f.clock) :
            /\ s.clock <= MaxClock
            /\ clock' = s.clock
            /\ cpu_freq_cell' = f.cell
            /\ map_init' = TRUE
            /\ trace_map' = TraceMapGetOrInit(map_init, trace_map)
            /\ start_ts_cell' = s.cell
            /\ hist' = [hist EXCEPT
                   !.begin_calls = @ + 1,
                   !.last_begin = Some([live |-> Len(guards),
                                        entries |-> Cardinality(DOMAIN trace_map)]),
                   !.estimates = IF f.estimated THEN @ + 1 ELSE @,
                   !.calibration =
                       IF f.estimated
                       THEN Some([from |-> clock, to |-> f.clock]) ELSE @]
    /\ UNCHANGED << CURRENT_TRACE, TRACE_ID, guards, stdout, drop_panicked >>
    /\ UNCHANGED other_vars

\* line 239, trace_map.keys().collect(): the keys in the iteration order of
\* the hash map, which is any order
KeyOrders(tm) ==
    LET n == Cardinality(DOMAIN tm)
    IN IF n = 0 THEN {<< >>}
       ELSE {ks \in [1..n -> DOMAIN tm] :
                \A i \in 1..n : \A j \in 1..n : ks[i] = ks[j] => i = j}

\* keys with k inserted before the first key of larger order
InsertByOrder(tm, keys, k) ==
    LET before == {i \in 1..Len(keys) : tm[keys[i]].order <= tm[k].order}
        n == Cardinality(before)
    IN SubSeq(keys, 1, n) \o << k >> \o SubSeq(keys, n + 1, Len(keys))

\* variant: the keys are left in iteration order
SortByOrder_Unsorted(tm, keys) == keys

RECURSIVE SortByOrder(_, _)
\* line 240, trace_ids.sort_unstable_by_key(order): keys in ascending order
SortByOrder(tm, keys) ==
    IF keys = << >> THEN << >>
    ELSE InsertByOrder(tm, SortByOrder(tm, Tail(keys)), Head(keys))

\* variant: the two report forms are exchanged
ExclusiveEqualsInclusive_Inverted(trace) ==
    trace.elapsed_exclusive # trace.elapsed_inclusive

\* line 244: `elapsed_exclusive as u64 == elapsed_inclusive'.  A negative
\* i64 becomes a u64 of at least 2^63, which no elapsed_inclusive reaches.
ExclusiveEqualsInclusive(trace) ==
    /\ trace.elapsed_exclusive >= 0
    /\ trace.elapsed_exclusive = trace.elapsed_inclusive

\* lines 236: the "Total time" line (the milliseconds are a float rendering
\* of cpu_time and cpu_freq; the line is kept as the pair)
TotalLine(cpu_time, freq) ==
    [kind |-> "total", cpu_time |-> cpu_time, cpu_freq |-> freq]

\* lines 242-253: the line of one entry (percentages left out)
TraceLine(trace_id, trace) ==
    IF ExclusiveEqualsInclusive(trace)
    THEN [kind |-> "leaf", trace_id |-> trace_id, hits |-> trace.hit_count,
          elapsed |-> trace.elapsed_inclusive]
    ELSE [kind |-> "children", trace_id |-> trace_id,
          hits |-> trace.hit_count, elapsed |-> trace.elapsed_exclusive]

\* lines 238-254: the lines of all entries, keys being the iteration order
TraceLines(tm, keys) ==
    LET ids == SortByOrder(tm, keys)
    IN [i \in 1..Len(ids) |-> TraceLine(ids[i], tm[ids[i]])]

\* line 231: the assertion of end_and_print_profile
EndAfterStart(end, start) == end > start

\* end_and_print_profile.  A failed assertion panics: nothing is printed,
\* but start_ts() has already memoized its reading.
end_and_print_profile ==
    /\ hist.end_calls < MaxEndCalls
    /\ \E d \in Steps :
         LET end == clock + d
         IN \E s \in start_ts(start_ts_cell, end) :
              LET start == s.cell[1]
                  ok == EndAfterStart(end, start)
                  cpu_time == end - start
                  map == IF ok THEN TraceMapGetOrInit(map_init, trace_map)
                         ELSE trace_map
              IN \E f \in IF ok THEN cpu_freq(cpu_freq_cell, s.clock)
                          ELSE {[cell |-> cpu_freq_cell, clock |-> s.clock,
                                 estimated |-> FALSE]} :
                 \E keys \in IF ok THEN KeyOrders(map) ELSE {<< >>} :
                   /\ f.clock <= MaxClock
                   /\ trace_map' = map
                   /\ clock' = f.clock
                   /\ start_ts_cell' = s.cell
                   /\ cpu_freq_cell' = f.cell
                   /\ map_init' = (map_init \/ ok)
                   /\ stdout' =
                        IF ok
                        THEN stdout \o << TotalLine(cpu_time, f.cell[1]) >>
                                    \o TraceLines(map, keys)
                        ELSE stdout
                   /\ hist' = [hist EXCEPT
                          !.end_calls = @ + 1,
                          !.estimates = IF f.estimated THEN @ + 1 ELSE @,
                          !.calibration =
                              IF f.estimated
                              THEN Some([from |-> s.clock, to |-> f.clock])
                              ELSE @,
                          !.failed_start = IF ok THEN @ ELSE s.cell,
                          !.last_end = Some([end |-> end, start |-> start,
                                             begun |-> hist.begin_calls > 0,
                                             unwound |-> guards = << >>,
                                             printed |-> ok])]
    /\ UNCHANGED << CURRENT_TRACE, TRACE_ID, guards, drop_panicked >>
    /\ UNCHANGED other_vars

Next ==
    \/ new_fn
    \/ new_loop
    \/ new_section
    \/ Drop
    \/ begin_profile
    \/ end_and_print_profile

Spec == Init /\ [][Next]_vars

\* The state right after a first begin_profile made at program start, the
\* origin of the cycle counter being put at the start timestamp; the
\* frequency is the estimate of a one-cycle calibration with no overshoot.
InitBegun ==
    /\ CalibIdle /\ PerfIdle /\ JsonIdle /\ WaitIdle /\ ProgIdle
    /\ sites = TwoSites
    /\ clock = 0
    /\ CURRENT_TRACE = None
    /\ TRACE_ID = 0
    /\ trace_map = << >>
    /\ map_init = TRUE
    /\ cpu_freq_cell =
           Some(EstimateCpuFreq(get_os_timer_freq, 1,
                    OsWaitTime(get_os_timer_freq, CalibrationMillis)))
    /\ start_ts_cell = Some(0)
    /\ guards = << >>
    /\ stdout = << >>
    /\ drop_panicked = FALSE
    /\ hist = [HistInit EXCEPT
                  !.begin_calls = 1,
                  !.estimates = 1,
                  !.last_begin = Some([live |-> 0, entries |-> 0])]

\* the operations of a program whose call sites are a function and a loop
NextBegun ==
    \/ new_fn
    \/ new_loop
    \/ Drop
    \/ begin_profile
    \/ end_and_print_profile

SpecBegun == InitBegun /\ [][NextBegun]_vars

\* Programs of two call sites each, the profile not begun.
InitSites ==
    /\ CalibIdle /\ PerfIdle /\ JsonIdle /\ WaitIdle /\ ProgIdle
    /\ sites \in SiteSets
    /\ clock = 0
    /\ CURRENT_TRACE = None
    /\ TRACE_ID = 0
    /\ trace_map = << >>
    /\ map_init = FALSE
    /\ cpu_freq_cell = None
    /\ start_ts_cell = None
    /\ guards = << >>
    /\ stdout = << >>
    /\ drop_panicked = FALSE
    /\ hist = HistInit

SpecSites == InitSites /\ [][Next]_vars

\* ------------------------------------------- guards dropped in any order
\* drop of any live guard (a guard moved out of its scope, or drop() called
\* on an outer guard first)
DropAnyOrder == \E i \in 1..Len(guards) : DropAt(i) /\ UNCHANGED prog

\* A program of two call sites that creates guards and drops them in any
\* order; the profile is neither begun nor reported.
InitAnyOrder ==
    /\ CalibIdle /\ PerfIdle /\ JsonIdle /\ WaitIdle /\ ProgIdle
    /\ sites = TwoSites
    /\ clock = 0
    /\ CURRENT_TRACE = None
    /\ TRACE_ID = 0
    /\ trace_map = << >>
    /\ map_init = FALSE
    /\ cpu_freq_cell = None
    /\ start_ts_cell = None
    /\ guards = << >>
    /\ stdout = << >>
    /\ drop_panicked = FALSE
    /\ hist = HistInit

NextAnyOrder ==
    \/ new_fn
    \/ new_loop
    \/ DropAnyOrder

SpecAnyOrder == InitAnyOrder /\ [][NextAnyOrder]_vars

\* ------------------------------------------- estimate_cpu_freq on its own
\* a program without ScopedTrace call sites, nothing of the profiler used
ProfilerIdle ==
    /\ sites = {}
    /\ clock = 0
    /\ CURRENT_TRACE = None
    /\ TRACE_ID = 0
    /\ trace_map = << >>
    /\ map_init = FALSE
    /\ cpu_freq_cell = None
    /\ start_ts_cell = None
    /\ guards = << >>
    /\ stdout = << >>
    /\ drop_panicked = FALSE
    /\ hist = HistInit

\* the timers' deltas seen by one run of estimate_cpu_freq: cpu_elapsed
\* (line 121) and os_elapsed (line 117), the latter positive
InitEstimate ==
    /\ ProfilerIdle /\ PerfIdle /\ JsonIdle /\ WaitIdle /\ ProgIdle
    /\ \E ce \in 0..MaxCpuElapsed, oe \in 1..MaxOsElapsed :
         calib = [cpu_elapsed |-> ce, os_elapsed |-> oe, result |-> None]

\* estimate_cpu_freq, line 122: the value returned
estimate ==
    /\ calib.result = None
    /\ calib' = [calib EXCEPT
                    !.result = Some(EstimateCpuFreq(get_os_timer_freq,
                                        calib.cpu_elapsed, calib.os_elapsed))]
    /\ UNCHANGED << clock, profiler_vars, perf_vars, json, wait, prog >>

NextEstimate == estimate

SpecEstimate == InitEstimate /\ [][NextEstimate]_vars

\* ------------------------------------- instrument and instrument_loop
\* The function
\*     #[instrument] fn f() { #[instrument_loop("x")] for .. { .. } }
\* after expansion:
\*     fn f() { let __trace_fn = ScopedTrace::new_fn("f");
\*              { let __trace_loop = ScopedTrace::new_loop("f", "x");
\*                for .. { .. } } }
\* prog.pc is the position in f, prog.iterations the number of iterations the
\* loop makes in this call, prog.done the iterations made.
InstrumentedFn == SiteFn(StrF)

InstrumentedLoop == SiteLoop(StrF, StrX)

InitLoop ==
    /\ CalibIdle /\ PerfIdle /\ JsonIdle /\ WaitIdle
    /\ prog = [pc |-> "call", iterations |-> 0, done |-> 0, calls |-> 0,
               iterated |-> 0]
    /\ sites = {InstrumentedFn, InstrumentedLoop}
    /\ clock = 0
    /\ CURRENT_TRACE = None
    /\ TRACE_ID = 0
    /\ trace_map = << >>
    /\ map_init = FALSE
    /\ cpu_freq_cell = None
    /\ start_ts_cell = None
    /\ guards = << >>
    /\ stdout = << >>
    /\ drop_panicked = FALSE
    /\ hist = HistInit

\* instrument, lines 16-19: the first statement of the function's block
call_fn ==
    /\ prog.pc = "call"
    /\ New(SiteId(InstrumentedFn), InstrumentedFn)
    /\ \E k \in 0..MaxIterations :
         prog' = [prog EXCEPT !.pc = "body", !.iterations = k, !.done = 0,
                              !.calls = @ + 1]

\* instrument_loop, lines 48-49: the first statement of the block put
\* around the loop
enter_loop ==
    /\ prog.pc = "body"
    /\ New(SiteId(InstrumentedLoop), InstrumentedLoop)
    /\ prog' = [prog EXCEPT !.pc = "loop"]

\* variant: the loop counts as over once it has made an iteration
LoopOver_AfterFirst(p) == p.done >= 1 \/ p.done = p.iterations

\* the loop statement has made all its iterations
LoopOver(p) == p.done = p.iterations

\* instrument_loop, line 50: one iteration of the loop
iterate ==
    /\ prog.pc = "loop"
    /\ ~LoopOver(prog)
    /\ prog' = [prog EXCEPT !.done = @ + 1, !.iterated = @ + 1]
    /\ UNCHANGED << clock, profiler_vars, calib, perf_vars, json, wait >>

\* instrument_loop, line 51: the end of the block put around the loop, where
\* __trace_loop, the second live guard, goes out of scope
exit_loop ==
    /\ prog.pc = "loop"
    /\ LoopOver(prog)
    /\ DropAt(2)
    /\ prog' = [prog EXCEPT !.pc = "after"]

\* the end of the function's block, where __trace_fn, the first live guard,
\* goes out of scope
return_fn ==
    /\ prog.pc = "after"
    /\ DropAt(1)
    /\ prog' = [prog EXCEPT !.pc = "call"]

NextLoop ==
    \/ call_fn
    \/ enter_loop
    \/ iterate
    \/ exit_loop
    \/ return_fn

SpecLoop == InitLoop /\ [][NextLoop]_vars

\* ---------------------------------------- estimate_cpu_freq step by step
\* variant: the loop is never entered
KeepWaiting_Never(os_elapsed, os_wait_time) == FALSE

\* line 115: the test of the busy-wait loop
KeepWaiting(os_elapsed, os_wait_time) == os_elapsed < os_wait_time

\* a call of estimate_cpu_freq(millis_to_wait) about to start; os_now is the
\* value read_os_timer() would return
InitWait ==
    /\ ProfilerIdle /\ CalibIdle /\ PerfIdle /\ JsonIdle /\ ProgIdle
    /\ \E m \in 0..MaxMillis, now \in 0..1 :
         wait = [pc |-> "call", millis_to_wait |-> m, os_now |-> now,
                 cpu_start |-> 0, os_start |-> 0, os_elapsed |-> 0,
                 os_wait_time |-> 0, result |-> None]

\* the OS clock advances during the busy-wait (an advance before the first
\* reading is a later value of os_now in the initial state)
os_tick ==
    /\ wait.pc = "loop"
    /\ \E k \in Steps :
         /\ wait.os_now + k <= MaxOsNow
         /\ wait' = [wait EXCEPT !.os_now = @ + k]
    /\ UNCHANGED << clock, profiler_vars, calib, perf_vars, json, prog >>

\* lines 108-114: the two timers are read, the wait time is computed
wait_start ==
    /\ wait.pc = "call"
    /\ \E d \in Steps :
         /\ clock + d <= MaxClock
         /\ clock' = clock + d
         /\ wait' = [wait EXCEPT
                        !.pc = "loop",
                        !.cpu_start = clock + d,
                        !.os_start = wait.os_now,
                        !.os_elapsed = 0,
                        !.os_wait_time = OsWaitTime(get_os_timer_freq,
                                                    wait.millis_to_wait)]
    /\ UNCHANGED << profiler_vars, calib, perf_vars, json, prog >>

\* lines 115-118: one iteration of the busy-wait loop
wait_poll ==
    /\ wait.pc = "loop"
    /\ KeepWaiting(wait.os_elapsed, wait.os_wait_time)
    /\ wait' = [wait EXCEPT !.os_elapsed = wait.os_now - wait.os_start]
    /\ UNCHANGED << clock, profiler_vars, calib, perf_vars, json, prog >>

\* lines 115, 120-122: the loop ends, the frequency is computed; a division
\* by zero panics
wait_exit ==
    /\ wait.pc = "loop"
    /\ ~KeepWaiting(wait.os_elapsed, wait.os_wait_time)
    /\ \E d \in Steps :
         LET cpu_elapsed == clock + d - wait.cpu_start
         IN /\ clock + d <= MaxClock
            /\ clock' = clock + d
            /\ wait' = IF wait.os_elapsed = 0
                       THEN [wait EXCEPT !.pc = "panicked"]
                       ELSE [wait EXCEPT
                                !.pc = "done",
                                !.result =
                                    Some(EstimateCpuFreq(get_os_timer_freq,
                                             cpu_elapsed, wait.os_elapsed))]
    /\ UNCHANGED << profiler_vars, calib, perf_vars, json, prog >>

NextWait ==
    \/ os_tick
    \/ wait_start
    \/ wait_poll
    \/ wait_exit

SpecWait == InitWait /\ [][NextWait]_vars

\* the function's steps are taken one after the other, and the OS clock
\* keeps advancing
SpecWaitFair ==
    /\ SpecWait
    /\ WF_vars(os_tick)
    /\ WF_vars(wait_start)
    /\ WF_vars(wait_poll)
    /\ WF_vars(wait_exit)

\* ============================================================ src/perf.rs
\* the ids the program passes to trace_begin and trace_end
TraceKeys == {"a", "b"}

\* Trace::new, lines 19-24
TraceNew(begin) == [begin |-> Some(begin), end |-> None]

\* Trace::end, lines 26-29; the debug_assert! exists in builds with
\* debug assertions only
TraceEnd(trace, end, dbg) ==
    IF dbg /\ ~(trace.begin[1] < end)
    THEN [panicked |-> TRUE, trace |-> trace]
    ELSE [panicked |-> FALSE, trace |-> [trace EXCEPT !.end = Some(end)]]

\* Trace::delta, lines 31-34: the possible outcomes.  With debug assertions
\* a missing end panics.  Without them unwrap_unchecked() on None is
\* undefined behaviour: the call yields some value, or the process traps.
TraceDelta(trace, dbg) ==
    IF trace.end # None
    THEN {[panicked |-> FALSE, value |-> trace.end[1] - trace.begin[1]]}
    ELSE IF dbg
         THEN {[panicked |-> TRUE, value |-> 0]}
         ELSE {[panicked |-> FALSE, value |-> g] : g \in 0..MaxGarbage}
                  \cup {[panicked |-> TRUE, value |-> 0]}

\* one outcome of Trace::delta for every trace of the map
Deltas(tm, dbg) ==
    {f \in [DOMAIN tm -> UNION {TraceDelta(tm[k], dbg) : k \in DOMAIN tm}] :
         \A k \in DOMAIN tm : f[k] \in TraceDelta(tm[k], dbg)}

\* HashMap::insert, line 82
MapInsert(tm, id, trace) ==
    [k \in DOMAIN tm \cup {id} |-> IF k = id THEN trace ELSE tm[k]]

\* *CPU_FREQ, line 112: lazy_static runs estimate_cpu_freq(100) (lines 7,
\* 53-69, the text of perf-core's estimate_cpu_freq) on the first use
LazyCpuFreq(cell, clk) ==
    IF cell # None
    THEN {[cell |-> cell, clock |-> clk]}
    ELSE {[cell |-> Some(e.freq), clock |-> e.clock] :
             e \in estimate_cpu_freq(CalibrationMillis, clk)}

\* trace_stats, line 114
StatsTotalLine(cpu_time, freq) ==
    [kind |-> "total", cpu_time |-> cpu_time, cpu_freq |-> freq]

\* trace_stats, lines 116-121: one line per element of TRACE_ORDER, up to
\* the first whose delta() does not return
RECURSIVE StatsLines(_, _, _)
StatsLines(order, deltas, cpu_time) ==
    IF order = << >> \/ deltas[Head(order)].panicked THEN << >>
    ELSE << [kind |-> "trace", key |-> Head(order),
             section_time |-> deltas[Head(order)].value,
             cpu_time |-> cpu_time] >>
         \o StatsLines(Tail(order), deltas, cpu_time)

\* a call that panics: nothing but the poison flag of the mutex changes
PerfPanic(op, id, poison) ==
    /\ poisoned' = poison
    /\ perf_hist' = [perf_hist EXCEPT
                        !.calls = @ + 1,
                        !.last = Some([op |-> op, id |-> id,
                                       panicked |-> TRUE])]
    /\ UNCHANGED << clock, TRACE_MAP, TRACE_ORDER, CPU_FREQ, perf_stdout >>

\* trace_begin, lines 76-85
trace_begin(id) ==
    /\ perf_hist.calls < MaxPerfCalls
    /\ IF poisoned
       THEN PerfPanic("trace_begin", id, TRUE)
       ELSE IF debug_assertions /\ id \in DOMAIN TRACE_MAP
       THEN PerfPanic("trace_begin", id, TRUE)
       ELSE \E d \in Steps :
              /\ clock + d <= MaxClock
              /\ clock' = clock + d
              /\ TRACE_MAP' = MapInsert(TRACE_MAP, id, TraceNew(clock + d))
              /\ TRACE_ORDER' = Append(TRACE_ORDER, id)
              /\ perf_hist' = [perf_hist EXCEPT
                                  !.calls = @ + 1,
                                  !.begun = @ \cup {id},
                                  !.last = Some([op |-> "trace_begin",
                                                 id |-> id,
                                                 panicked |-> FALSE])]
              /\ UNCHANGED << CPU_FREQ, poisoned, perf_stdout >>
    /\ UNCHANGED << profiler_vars, calib, json, debug_assertions, wait, prog >>

\* a call of trace_end that returns without recording anything
TraceEndNothing(id) ==
    /\ perf_hist' = [perf_hist EXCEPT
                        !.calls = @ + 1,
                        !.last = Some([op |-> "trace_end", id |-> id,
                                       panicked |-> FALSE])]
    /\ UNCHANGED << clock, TRACE_MAP, TRACE_ORDER, CPU_FREQ, poisoned,
                    perf_stdout >>

\* trace_end, lines 93-101
trace_end(id) ==
    /\ perf_hist.calls < MaxPerfCalls
    /\ IF poisoned
       THEN PerfPanic("trace_end", id, TRUE)
       ELSE IF id \notin DOMAIN TRACE_MAP
       THEN IF debug_assertions
            THEN PerfPanic("trace_end", id, TRUE)
            ELSE TraceEndNothing(id)
       ELSE IF debug_assertions /\ TRACE_MAP[id].end # None
       THEN PerfPanic("trace_end", id, TRUE)
       ELSE \E d \in Steps :
              LET r == TraceEnd(TRACE_MAP[id], clock + d, debug_assertions)
              IN /\ clock + d <= MaxClock
                 /\ clock' = clock + d
                 /\ TRACE_MAP' = [TRACE_MAP EXCEPT ![id] = r.trace]
                 /\ poisoned' = r.panicked
                 /\ perf_hist' = [perf_hist EXCEPT
                                     !.calls = @ + 1,
                                     !.ended = IF r.panicked THEN @
                                               ELSE @ \cup {id},
                                     !.last = Some([op |-> "trace_end",
                                                    id |-> id,
                                                    panicked |-> r.panicked])]
                 /\ UNCHANGED << TRACE_ORDER, CPU_FREQ, perf_stdout >>
    /\ UNCHANGED << profiler_vars, calib, json, debug_assertions, wait, prog >>

\* trace_stats, lines 109-122.  `sum' are the outcomes of delta() in the sum
\* of line 111, `each' those of line 118.
trace_stats ==
    /\ perf_hist.calls < MaxPerfCalls
    /\ IF poisoned
       THEN PerfPanic("trace_stats", "", TRUE)
       ELSE \E sum \in Deltas(TRACE_MAP, debug_assertions) :
              IF \E k \in DOMAIN TRACE_MAP : sum[k].panicked
              THEN PerfPanic("trace_stats", "", TRUE)
              ELSE \E each \in Deltas(TRACE_MAP, debug_assertions) :
                   \E f \in LazyCpuFreq(CPU_FREQ, clock) :
                     LET cpu_time ==
                             SumOver([k \in DOMAIN TRACE_MAP |-> sum[k].value],
                                     DOMAIN TRACE_MAP)
                         stopped ==
                             \E k \in DOMAIN TRACE_MAP : each[k].panicked
                     IN /\ f.clock <= MaxClock
                        /\ clock' = f.clock
                        /\ CPU_FREQ' = f.cell
                        /\ perf_stdout' =
                               perf_stdout
                                 \o << StatsTotalLine(cpu_time, f.cell[1]) >>
                                 \o StatsLines(TRACE_ORDER, each, cpu_time)
                        /\ poisoned' = stopped
                        /\ perf_hist' = [perf_hist EXCEPT
                                            !.calls = @ + 1,
                                            !.last = Some([op |-> "trace_stats",
                                                           id |-> "",
                                                           panicked |-> stopped])]
                        /\ UNCHANGED << TRACE_MAP, TRACE_ORDER >>
    /\ UNCHANGED << profiler_vars, calib, json, debug_assertions, wait, prog >>

\* a program using src/perf.rs, built with or without debug assertions
InitPerf ==
    /\ ProfilerIdle /\ CalibIdle /\ JsonIdle /\ WaitIdle /\ ProgIdle
    /\ debug_assertions \in BOOLEAN
    /\ PerfStatics

NextPerf ==
    \/ \E id \in TraceKeys : trace_begin(id)
    \/ \E id \in TraceKeys : trace_end(id)
    \/ trace_stats

SpecPerf == InitPerf /\ [][NextPerf]_vars

\* ==================================================== src/deserializer.rs
\* Texts are sequences of characters.
WhiteSpace == {" ", "\t", "\r", "\n"}

DigitChars == << "0", "1", "2", "3", "4", "5", "6", "7", "8", "9" >>

Letters ==
    {"a", "b", "c", "d", "e", "f", "g", "h", "i", "j", "k", "l", "m", "n",
     "o", "p", "q", "r", "s", "t", "u", "v", "w", "x", "y", "z",
     "A", "B", "C", "D", "E", "F", "G", "H", "I", "J", "K", "L", "M", "N",
     "O", "P", "Q", "R", "S", "T", "U", "V", "W", "X", "Y", "Z"}

IsDigit(c) == \E n \in 1..10 : DigitChars[n] = c

DigitValue(c) == (CHOOSE n \in 1..10 : DigitChars[n] = c) - 1

\* nom::character::is_alphanumeric
is_alphanumeric(c) == IsDigit(c) \/ c \in Letters

\* IResult: Ok((rem, out)), Err(Error) or Err(Failure)
ParseOk(rem, out) == [ok |-> TRUE, rem |-> rem, out |-> out, failure |-> FALSE]

ParseError == [ok |-> FALSE, rem |-> << >>, out |-> << >>, failure |-> FALSE]

ParseFailure == [ok |-> FALSE, rem |-> << >>, out |-> << >>, failure |-> TRUE]

\* multispace0: the text after its leading spaces, tabs and line ends
RECURSIVE multispace0(_)
multispace0(i) ==
    IF i # << >> /\ Head(i) \in WhiteSpace THEN multispace0(Tail(i)) ELSE i

\* nom char(c)
char(c, i) ==
    IF i # << >> /\ Head(i) = c THEN ParseOk(Tail(i), c) ELSE ParseError

\* ws(char(c)), lines 34-43
eat_char(c, i) ==
    LET r == char(c, multispace0(i))
    IN IF r.ok THEN ParseOk(multispace0(r.rem), c) ELSE r

\* length of the longest alphanumeric prefix
RECURSIVE AlnumPrefix(_)
AlnumPrefix(i) ==
    IF i # << >> /\ is_alphanumeric(Head(i)) THEN 1 + AlnumPrefix(Tail(i))
    ELSE 0

\* take_while1(is_alphanumeric)
take_while1(i) ==
    LET n == AlnumPrefix(i)
    IN IF n = 0 THEN ParseError
       ELSE ParseOk(SubSeq(i, n + 1, Len(i)), SubSeq(i, 1, n))

\* key, lines 45-52
key(i) ==
    LET q1 == char("\"", multispace0(i))
        name == take_while1(q1.rem)
        q2 == char("\"", name.rem)
        colon == eat_char(":", multispace0(q2.rem))
    IN IF q1.ok /\ name.ok /\ q2.ok /\ colon.ok
       THEN ParseOk(multispace0(multispace0(colon.rem)), name.out)
       ELSE ParseError

\* length of the longest prefix of decimal digits
RECURSIVE DigitPrefix(_)
DigitPrefix(i) ==
    IF i # << >> /\ IsDigit(Head(i)) THEN 1 + DigitPrefix(Tail(i)) ELSE 0

\* the number written by a sequence of decimal digits
RECURSIVE DecimalValue(_)
DecimalValue(digits) ==
    IF digits = << >> THEN 0
    ELSE 10 * DecimalValue(SubSeq(digits, 1, Len(digits) - 1))
             + DigitValue(digits[Len(digits)])

\* nom double, on the unsigned whole numbers; no leading whitespace is
\* skipped, and the number ends at the first character that is no digit
double(i) ==
    LET n == DigitPrefix(i)
    IN IF n = 0 THEN ParseError
       ELSE ParseOk(SubSeq(i, n + 1, Len(i)), DecimalValue(SubSeq(i, 1, n)))

\* coordinate, lines 54-59
coordinate(i) ==
    LET k == key(i)
        v == double(k.rem)
    IN IF k.ok /\ v.ok THEN ParseOk(v.rem, << k.out, v.out >>)
       ELSE ParseError

KeyX0 == << "x", "0" >>
KeyY0 == << "y", "0" >>
KeyX1 == << "x", "1" >>
KeyY1 == << "y", "1" >>
KeyZ0 == << "z", "0" >>

\* variant: the arms of x0 and x1 are exchanged
AssignCoordinate_SwappedArms(point, k, val) ==
    IF k = KeyX0 THEN [point EXCEPT !.x1 = Some(val)]
    ELSE IF k = KeyX1 THEN [point EXCEPT !.x0 = Some(val)]
    ELSE IF k = KeyY0 THEN [point EXCEPT !.y0 = Some(val)]
    ELSE IF k = KeyY1 THEN [point EXCEPT !.y1 = Some(val)]
    ELSE point

\* haversine_datapoint, lines 81-87: the match on the key
AssignCoordinate(point, k, val) ==
    IF k = KeyX0 THEN [point EXCEPT !.x0 = Some(val)]
    ELSE IF k = KeyX1 THEN [point EXCEPT !.x1 = Some(val)]
    ELSE IF k = KeyY0 THEN [point EXCEPT !.y0 = Some(val)]
    ELSE IF k = KeyY1 THEN [point EXCEPT !.y1 = Some(val)]
    ELSE point

\* haversine_datapoint, lines 80-88: the loop over the four coordinates
RECURSIVE AssignAll(_, _)
AssignAll(point, coords) ==
    IF coords = << >> THEN point
    ELSE AssignAll(AssignCoordinate(point, Head(coords)[1], Head(coords)[2]),
                   Tail(coords))

\* haversine_datapoint, lines 61-108
haversine_datapoint(i) ==
    LET open == eat_char("{", i)
        c1 == coordinate(open.rem)
        s1 == eat_char(",", c1.rem)
        c2 == coordinate(s1.rem)
        s2 == eat_char(",", c2.rem)
        c3 == coordinate(s2.rem)
        s3 == eat_char(",", c3.rem)
        c4 == coordinate(s3.rem)
        close == eat_char("}", c4.rem)
        p == AssignAll([x0 |-> None, y0 |-> None, x1 |-> None, y1 |-> None],
                       << c1.out, c2.out, c3.out, c4.out >>)
    IN IF ~(open.ok /\ c1.ok /\ s1.ok /\ c2.ok /\ s2.ok /\ c3.ok /\ s3.ok
              /\ c4.ok /\ close.ok)
       THEN ParseError
       ELSE IF p.x0 = None \/ p.x1 = None \/ p.y0 = None \/ p.y1 = None
       THEN ParseFailure
       ELSE ParseOk(close.rem,
                    [x0 |-> p.x0[1], y0 |-> p.y0[1],
                     x1 |-> p.x1[1], y1 |-> p.y1[1]])

\* ---- the texts given to the parser
\* the decimal digits of a natural number
RECURSIVE ToDigits(_)
ToDigits(n) ==
    IF n < 10 THEN << DigitChars[n + 1] >>
    ELSE ToDigits(n \div 10) \o << DigitChars[(n % 10) + 1] >>

\* runs of at most n whitespace characters
RECURSIVE WsRuns(_)
WsRuns(n) ==
    IF n = 0 THEN { << >> }
    ELSE WsRuns(n - 1)
           \cup {Append(r, c) : r \in WsRuns(n - 1), c \in {" ", "\n"}}

JsonKeys == {KeyX0, KeyY0, KeyX1, KeyY1, KeyZ0}

\* the values of the four members, by position
JsonValues == { << 1, 2, 3, 4 >>, << 40, 3, 3, 17 >> }

\* a token with whitespace before and after it
Token(pre, chars, post) == pre \o chars \o post

\* the member at position n: "key" : value
Member(keys, vals, n, pre, post) ==
    Token(pre, << "\"" >> \o keys[n] \o << "\"" >>, post)
      \o Token(pre, << ":" >>, post)
      \o Token(pre, ToDigits(vals[n]), post)

\* an object of four members
ObjectText(keys, vals, pre, post) ==
    Token(pre, << "{" >>, post)
      \o Member(keys, vals, 1, pre, post) \o Token(pre, << "," >>, post)
      \o Member(keys, vals, 2, pre, post) \o Token(pre, << "," >>, post)
      \o Member(keys, vals, 3, pre, post) \o Token(pre, << "," >>, post)
      \o Member(keys, vals, 4, pre, post)
      \o Token(pre, << "}" >>, post)

InitJson ==
    /\ ProfilerIdle /\ CalibIdle /\ PerfIdle /\ WaitIdle /\ ProgIdle
    /\ \E keys \in [1..4 -> JsonKeys], vals \in JsonValues,
          pre \in WsRuns(MaxWs), post \in WsRuns(MaxWs) :
         json = [keys |-> keys, vals |-> vals,
                 input |-> ObjectText(keys, vals, pre, post),
                 result |-> None]

\* haversine_datapoint applied to the text
parse_datapoint ==
    /\ json.result = None
    /\ json' = [json EXCEPT !.result = Some(haversine_datapoint(json.input))]
    /\ UNCHANGED << clock, profiler_vars, calib, perf_vars, wait, prog >>

NextJson == parse_datapoint

SpecJson == InitJson /\ [][NextJson]_vars

\* ================================================================ claims
Entries == DOMAIN trace_map

\* sum of elapsed_exclusive over all entries of the trace table
SumExclusive ==
    SumOver([id \in Entries |-> trace_map[id].elapsed_exclusive], Entries)

Unwound == guards = << >>

\* C1: after full unwind of a well-nested run (recursion included) with a
\* single outermost span, the sum of elapsed_exclusive over all entries is
\* the number of cycles between that span's begin and its drop.
C1_SumExclusiveIsWindow ==
    (Unwound /\ hist.root_drops = 1) =>
        SumExclusive = hist.root_end - hist.root_begin

C1_Witness ==
    /\ Unwound /\ hist.root_drops = 1
    /\ Cardinality(Entries) >= 2
    /\ \E id \in Entries : hist.reentered[id]
    /\ SumExclusive = hist.root_end - hist.root_begin

\* C2: after full unwind every identity's elapsed_exclusive is the sum of
\* the durations of its invocations minus the sum of the durations of the
\* guards that exited with it as captured parent.
C2_ExclusiveIsOwnMinusChildren ==
    Unwound =>
        \A id \in Entries :
            trace_map[id].elapsed_exclusive =
                hist.own_time[id] - hist.child_time[id]

\* a parent entered once with two sibling children d1, d2
C2_Witness ==
    /\ Unwound
    /\ \E p \in Entries :
         /\ hist.dropped[p] = 1
         /\ hist.child_exits[p] = 2
         /\ p \notin hist.child_ids[p]
         /\ trace_map[p].elapsed_exclusive =
                hist.last_time[p] - hist.child_time[p]

\* C3: at every state hit_count of every identity is the number of its
\* guards dropped so far (identities without an entry have none).
C3_HitCountIsDrops ==
    \A id \in TraceIds :
        IF id \in Entries THEN trace_map[id].hit_count = hist.dropped[id]
        ELSE hist.dropped[id] = 0

C3_Witness ==
    /\ guards # << >>
    /\ \E id \in Entries :
         hist.reentered[id] /\ trace_map[id].hit_count >= 2
    /\ \E id \in Entries : trace_map[id].hit_count = 1

\* an identity with at least two completed invocations, never re-entered
\* while live, and not live now
SequentialTwice(id) ==
    /\ hist.dropped[id] >= 2
    /\ ~hist.reentered[id]
    /\ id \notin LiveIds

\* C4 as stated: after two or more non-overlapping invocations
\* elapsed_inclusive is the duration of the most recent invocation only,
\* while elapsed_exclusive accumulates over all invocations.
C4_InclusiveIsLatestOnly ==
    \A id \in Entries :
        SequentialTwice(id) =>
            /\ trace_map[id].elapsed_inclusive = hist.last_time[id]
            /\ trace_map[id].elapsed_exclusive =
                   hist.own_time[id] - hist.child_time[id]

\* C4 amended: after two or more non-overlapping invocations
\* elapsed_inclusive is the sum of the durations of all of them, and
\* elapsed_exclusive accumulates over all invocations.
C4_InclusiveAccumulates ==
    \A id \in Entries :
        SequentialTwice(id) =>
            /\ trace_map[id].elapsed_inclusive = hist.own_time[id]
            /\ trace_map[id].elapsed_exclusive =
                   hist.own_time[id] - hist.child_time[id]

C4_Witness ==
    \E id \in Entries :
        /\ SequentialTwice(id)
        /\ hist.child_exits[id] > 0
        /\ trace_map[id].elapsed_inclusive = hist.own_time[id]
        /\ trace_map[id].elapsed_inclusive > hist.last_time[id]

\* C5: an identity with no guard ever exited beneath it has
\* elapsed_exclusive = elapsed_inclusive after each of its drops.
C5_LeafExclusiveEqualsInclusive ==
    \A id \in Entries :
        (hist.child_exits[id] = 0 /\ hist.dropped[id] >= 1) =>
            trace_map[id].elapsed_exclusive = trace_map[id].elapsed_inclusive

C5_Witness ==
    \E id \in Entries :
        /\ hist.child_exits[id] = 0
        /\ hist.dropped[id] >= 3
        /\ trace_map[id].elapsed_exclusive = trace_map[id].elapsed_inclusive

\* C6: once an identity that was re-entered while live has unwound,
\* elapsed_inclusive is its value at the outermost entry plus the duration
\* of the outermost invocation.
C6_RecursionCountsOutermostOnly ==
    \A id \in Entries :
        (hist.outer_reent[id] /\ id \notin LiveIds) =>
            trace_map[id].elapsed_inclusive =
                hist.outer_incl[id] + hist.outer_time[id]

C6_Witness ==
    /\ Unwound
    /\ \E id \in Entries :
         /\ hist.outer_reent[id]
         /\ hist.outer_incl[id] > 0
         /\ hist.dropped[id] >= 3
         /\ trace_map[id].elapsed_inclusive =
                hist.outer_incl[id] + hist.outer_time[id]

\* parent p is the only top-level guard of the run, every guard beneath it is a direct
\* child c, c was only ever entered under p, and all invocations of c took
\* the same number of cycles
ParentWithEqualChildren(p, c) ==
    /\ Unwound
    /\ p # c
    /\ hist.root_drops = 1
    /\ hist.dropped[p] = 1
    /\ hist.parents[p] = {None}
    /\ hist.child_ids[p] = {c}
    /\ hist.parents[c] = {Some(p)}
    /\ hist.child_exits[c] = 0
    /\ Cardinality(hist.times[c]) = 1

\* C7: a parent entered once with k sequential invocations of one child of
\* c cycles each: the child has hit_count k and elapsed_exclusive k*c, the
\* parent has hit_count 1, elapsed_inclusive its full duration and
\* elapsed_exclusive its full duration minus k*c.
C7_ParentWithLoopChild ==
    \A p \in Entries : \A c \in Entries :
        ParentWithEqualChildren(p, c) =>
            LET k == hist.child_exits[p]
                cycles == CHOOSE t \in hist.times[c] : TRUE
                full == hist.root_end - hist.root_begin
            IN /\ trace_map[c].hit_count = k
               /\ trace_map[c].elapsed_exclusive = k * cycles
               /\ trace_map[p].hit_count = 1
               /\ trace_map[p].elapsed_inclusive = full
               /\ trace_map[p].elapsed_exclusive = full - k * cycles

\* the parent with two iterations of the child
C7_Witness ==
    \E p \in Entries : \E c \in Entries :
        /\ ParentWithEqualChildren(p, c)
        /\ hist.child_exits[p] = 2
        /\ trace_map[c].hit_count = 2
        /\ trace_map[p].elapsed_inclusive
               = trace_map[p].elapsed_exclusive + trace_map[c].elapsed_exclusive

\* order is strictly increasing along the first-entry sequence
OrderFollowsFirstSeen ==
    \A i \in 1..Len(hist.first_seen) : \A j \in 1..Len(hist.first_seen) :
        i < j => trace_map[hist.first_seen[i]].order
                     < trace_map[hist.first_seen[j]].order

\* no step changes the order of an existing entry, and a step that adds no
\* entry leaves TRACE_ID alone
OrderStable ==
    /\ \A id \in Entries :
           id \in DOMAIN trace_map' /\ trace_map'[id].order = trace_map[id].order
    /\ DOMAIN trace_map' = Entries => TRACE_ID' = TRACE_ID

\* C8: order values follow the first-entry sequence strictly, and entering
\* or exiting an identity that already has an entry changes no order value
\* and not TRACE_ID.
C8_OrderIsFirstSeen == []OrderFollowsFirstSeen /\ [][OrderStable]_vars

C8_Witness ==
    /\ Len(hist.first_seen) = Cardinality(TraceIds)
    /\ \E id \in Entries : hist.dropped[id] >= 1 /\ id \in LiveIds

\* C9 as stated: while begin_profile has never been called nothing is
\* printed, and whatever call printed had start < end.
C9_NoReportWithoutBegin ==
    /\ hist.begin_calls = 0 => stdout = << >>
    /\ \A i \in 1..Len(hist.last_end) :
           hist.last_end[i].printed =>
               hist.last_end[i].start < hist.last_end[i].end

\* a further begin_profile call leaves the memoized cells, the table, the
\* tracker and the counter as they were
BeginAgainChangesNothing ==
    (hist.begin_calls >= 1 /\ hist'.begin_calls = hist.begin_calls + 1) =>
        /\ cpu_freq_cell' = cpu_freq_cell
        /\ start_ts_cell' = start_ts_cell
        /\ trace_map' = trace_map
        /\ CURRENT_TRACE' = CURRENT_TRACE
        /\ TRACE_ID' = TRACE_ID

\* C10: after the first begin_profile every further call leaves frequency,
\* start timestamp, table, tracker and counter unchanged, and the frequency
\* estimation runs at most once.
C10_BeginProfileIdempotent ==
    [][BeginAgainChangesNothing]_vars /\ [](hist.estimates <= 1)

\* a second begin_profile made while guards were live and entries existed
C10_Witness ==
    /\ hist.begin_calls >= 2
    /\ \E i \in 1..Len(hist.last_begin) :
           hist.last_begin[i].live > 0 /\ hist.last_begin[i].entries > 0
    /\ hist.estimates = 1

\* the trace lines of the report printed by this step (after its total line)
NewLines == SubSeq(stdout', Len(stdout) + 2, Len(stdout'))

\* the step prints one line per entry, in ascending order of `order'
ReportInOrder ==
    stdout' # stdout =>
        /\ Len(NewLines) = Cardinality(Entries)
        /\ \A id \in Entries :
               \E i \in 1..Len(NewLines) : NewLines[i].trace_id = id
        /\ \A i \in 1..Len(NewLines) : \A j \in 1..Len(NewLines) :
               i < j => trace_map[NewLines[i].trace_id].order
                            < trace_map[NewLines[j].trace_id].order

\* C11: end_and_print_profile prints exactly one line per entry, in strictly
\* ascending order of the order field, whatever the times and whatever the
\* iteration order of the hash map.
C11_ReportInFirstSeenOrder == [][ReportInOrder]_vars

\* a report of two lines whose first line shows more cycles than its second
C11_Witness ==
    /\ Len(stdout) = 3
    /\ stdout[2].kind # "total"
    /\ stdout[3].kind # "total"
    /\ stdout[2].elapsed > stdout[3].elapsed
    /\ stdout[2].hits >= 1

\* the identities other than id that exited with id as captured parent
ForeignChildren(id) == hist.child_ids[id] \ {id}

\* C12 as stated: after full unwind an identity has elapsed_exclusive =
\* elapsed_inclusive exactly when no guard ever exited with it as captured
\* parent.
C12_LeafIffNoChild ==
    Unwound =>
        \A id \in Entries :
            (hist.child_exits[id] = 0) <=>
                (trace_map[id].elapsed_exclusive
                     = trace_map[id].elapsed_inclusive)

EqualIffNoForeignChild ==
    Unwound =>
        \A id \in Entries :
            (ForeignChildren(id) = {}) <=>
                (trace_map[id].elapsed_exclusive
                     = trace_map[id].elapsed_inclusive)

ChildrenFormIffForeignChild ==
    (stdout' # stdout /\ Unwound) =>
        \A i \in 1..Len(NewLines) :
            (NewLines[i].kind = "children") <=>
                (ForeignChildren(NewLines[i].trace_id) # {})

\* C12 amended: after full unwind an identity has elapsed_exclusive =
\* elapsed_inclusive exactly when no guard of another identity ever exited
\* with it as captured parent, and a report printed then uses the
\* 'w/ children' form exactly for the identities that had such a child.
C12_LeafIffNoForeignChild ==
    []EqualIffNoForeignChild /\ [][ChildrenFormIffForeignChild]_vars

\* a report printed after full unwind: a 'w/ children' line for a parent and
\* a plain line for its child, whose only nested guard was a re-entry
C12_Witness ==
    /\ Unwound
    /\ Len(stdout) = 3
    /\ hist.last_end # None
    /\ hist.last_end[1].unwound
    /\ stdout[2].kind = "children"
    /\ stdout[3].kind = "leaf"
    /\ hist.child_ids[stdout[3].trace_id] = {stdout[3].trace_id}

\* C13 as stated: no step changes the trace table before the first
\* begin_profile or after a report has been printed.
C13_TableOnlyWhileActive ==
    [][(hist.begin_calls = 0 \/ stdout # << >>) =>
           trace_map' = trace_map]_vars

LifecycleStep ==
    \/ hist'.begin_calls # hist.begin_calls
    \/ hist'.end_calls # hist.end_calls

\* C13 amended: the trace table is changed by the creation and the drop of
\* guards only, never by begin_profile or end_and_print_profile; a guard
\* drop changes it in every state, also before the first begin_profile and
\* after a report.
C13_TableChangedByGuardsOnly ==
    /\ [][LifecycleStep => trace_map' = trace_map]_vars
    /\ [][Len(guards') < Len(guards) => trace_map' # trace_map]_vars

\* begin_profile never called, a report printed, and an entry with more
\* hits than the report showed
C13_Witness ==
    /\ hist.begin_calls = 0
    /\ Len(stdout) >= 2
    /\ stdout[2].kind # "total"
    /\ trace_map[stdout[2].trace_id].hit_count > stdout[2].hits

\* C14: after full unwind every entry has
\* 0 <= elapsed_exclusive <= elapsed_inclusive.
C14_ExclusiveWithinInclusive ==
    Unwound =>
        \A id \in Entries :
            /\ 0 <= trace_map[id].elapsed_exclusive
            /\ trace_map[id].elapsed_exclusive
                   <= trace_map[id].elapsed_inclusive

C14_Witness ==
    /\ Unwound
    /\ \E id \in Entries :
         /\ hist.reentered[id]
         /\ hist.dropped[id] >= 2
    /\ \E id \in Entries :
         /\ 0 < trace_map[id].elapsed_exclusive
         /\ trace_map[id].elapsed_exclusive < trace_map[id].elapsed_inclusive

\* C15: the entries are as many as the distinct (function name, kind, label)
\* triples of the call sites executed: the same triple shares an entry, a
\* difference in any of the three gives another entry.
C15_EntriesAreDistinctTriples ==
    Cardinality(Entries) = Cardinality({SiteTriple(site) : site \in hist.used})

\* two call sites writing the same identity, both executed and exited
C15_Witness ==
    /\ Cardinality(hist.used) = 2
    /\ Cardinality({SiteTriple(site) : site \in hist.used}) = 1
    /\ Cardinality(Entries) = 1
    /\ \E id \in Entries : trace_map[id].hit_count = 2

\* the quotient of p by q rounded to the nearest integer, halves upwards
RoundedQuotient(p, q) == (2 * p + q) \div (2 * q)

\* C16 as stated: estimate_cpu_freq returns cycle_delta * nanos_per_second /
\* wall_delta rounded to the nearest integer.
C16_EstimateIsRounded ==
    calib.result # None =>
        calib.result[1]
            = RoundedQuotient(get_os_timer_freq * calib.cpu_elapsed,
                              calib.os_elapsed)

\* C16 amended: estimate_cpu_freq returns the quotient cycle_delta *
\* nanos_per_second / wall_delta truncated towards zero: the largest integer
\* r with r * wall_delta <= cycle_delta * nanos_per_second.
C16_EstimateIsTruncated ==
    calib.result # None =>
        /\ calib.result[1] * calib.os_elapsed
               <= get_os_timer_freq * calib.cpu_elapsed
        /\ get_os_timer_freq * calib.cpu_elapsed
               < (calib.result[1] + 1) * calib.os_elapsed

\* an estimate whose quotient has a fractional part above one half
C16_Witness ==
    /\ calib.result # None
    /\ calib.cpu_elapsed = 2
    /\ calib.os_elapsed = 3
    /\ calib.result[1] = 666

\* the step is a call of op with argument id
PerfCall(op, id) ==
    /\ perf_hist'.calls = perf_hist.calls + 1
    /\ perf_hist'.last[1].op = op
    /\ perf_hist'.last[1].id = id

\* a trace_begin(id) for an id already begun panics and changes nothing
RepeatedBeginPanics ==
    \A id \in TraceKeys :
        (PerfCall("trace_begin", id) /\ id \in perf_hist.begun) =>
            /\ perf_hist'.last[1].panicked
            /\ TRACE_MAP'[id].begin = TRACE_MAP[id].begin
            /\ TRACE_ORDER' = TRACE_ORDER

\* TRACE_ORDER holds every begun id once
OrderHoldsEachBegunIdOnce ==
    \A id \in perf_hist.begun :
        Cardinality({n \in 1..Len(TRACE_ORDER) : TRACE_ORDER[n] = id}) = 1

\* C17: trace_begin(id) panics when trace_begin was already called for the
\* id, leaving the trace's begin timestamp and TRACE_ORDER as they were, so
\* TRACE_ORDER holds each begun id exactly once.
C17_RepeatedBeginPanics ==
    [][RepeatedBeginPanics]_vars /\ []OrderHoldsEachBegunIdOnce

\* C18: trace_end(id) panics when no trace_begin(id) preceded it and when
\* trace_end(id) was already called for the id; a recorded end timestamp is
\* never overwritten by it.
C18_EndWithoutBeginOrTwicePanics ==
    [][\A id \in TraceKeys :
          PerfCall("trace_end", id) =>
              /\ id \notin perf_hist.begun => perf_hist'.last[1].panicked
              /\ id \in perf_hist.ended =>
                     /\ perf_hist'.last[1].panicked
                     /\ TRACE_MAP'[id].end = TRACE_MAP[id].end]_vars

\* C19: trace_stats panics and prints nothing whenever some trace that was
\* begun has not been ended.
C19_StatsPanicsOnOpenTrace ==
    [][(/\ PerfCall("trace_stats", "")
        /\ \E id \in DOMAIN TRACE_MAP : TRACE_MAP[id].end = None) =>
           /\ perf_hist'.last[1].panicked
           /\ perf_stdout' = perf_stdout]_vars

\* the field of a point named by a key
FieldOf(point, k) ==
    CASE k = KeyX0 -> point.x0
      [] k = KeyY0 -> point.y0
      [] k = KeyX1 -> point.x1
      [] k = KeyY1 -> point.y1

\* C20: haversine_datapoint accepts the four members in any key order and
\* with whitespace around the tokens, each value going to the field named by
\* its key; four keys that do not cover x0, y0, x1, y1 give an error.
C20_MembersAssignedByKey ==
    json.result # None =>
        IF {json.keys[n] : n \in 1..4} = {KeyX0, KeyY0, KeyX1, KeyY1}
        THEN /\ json.result[1].ok
             /\ \A n \in 1..4 :
                    FieldOf(json.result[1].out, json.keys[n]) = json.vals[n]
        ELSE ~json.result[1].ok

\* the order of the repository's test (y0, x0, x1, y1), whitespace before
\* and after every token, four different values: a point is returned
C20_Witness ==
    /\ json.result # None
    /\ json.result[1].ok
    /\ json.keys = << KeyY0, KeyX0, KeyX1, KeyY1 >>
    /\ json.vals = << 1, 2, 3, 4 >>
    /\ Head(json.input) \in WhiteSpace
    /\ json.input[Len(json.input)] \in WhiteSpace
    /\ json.result[1].out = [x0 |-> 2, y0 |-> 1, x1 |-> 3, y1 |-> 4]

\* the tracker names the innermost live guard
TrackerIsInnermost ==
    CURRENT_TRACE = IF guards = << >> THEN None
                    ELSE Some(guards[Len(guards)].trace_id)

\* each live guard's captured parent is the next enclosing live guard
ParentsFormTheStack ==
    \A i \in 1..Len(guards) :
        guards[i].parent = IF i = 1 THEN None
                           ELSE Some(guards[i - 1].trace_id)

\* a drop puts the tracker back to its value before the guard's creation
DropRestoresTracker ==
    Len(guards') < Len(guards) =>
        CURRENT_TRACE' = hist.trackers[Len(guards)]

\* C21: with well-nested guards the tracker always holds the identity of the
\* innermost live guard (None when none is live), the captured parents of the
\* live guards are the enclosing guards' identities, and a drop restores the
\* tracker to its value before the dropped guard was created.
C21_TrackerFollowsTheStack ==
    /\ []TrackerIsInnermost
    /\ []ParentsFormTheStack
    /\ [][DropRestoresTracker]_vars

\* three guards were live, the innermost was dropped and the tracker is
\* back at the second one
C21_Witness ==
    /\ Len(guards) = 2
    /\ hist.last_drop # None
    /\ hist.last_drop[1].before = Some(guards[2].trace_id)
    /\ hist.last_drop[1].guard.trace_id # guards[2].trace_id
    /\ CURRENT_TRACE = Some(guards[2].trace_id)

\* the guard removed by the step
Dropped == hist'.last_drop[1].guard

\* the entries looked up by a drop exist
DropFindsEntries ==
    Len(guards') < Len(guards) =>
        /\ Dropped.trace_id \in DOMAIN trace_map
        /\ Dropped.parent # None => Dropped.parent[1] \in DOMAIN trace_map

\* C22: whatever the order in which guards are dropped, each once, the
\* table holds an entry for the dropped guard's identity and for its captured
\* parent, so no lookup of a drop fails; the tracker's identity is always a
\* key of the table and entries are never removed.
C22_DropLookupsNeverFail ==
    /\ []~drop_panicked
    /\ [](CURRENT_TRACE # None => CURRENT_TRACE[1] \in DOMAIN trace_map)
    /\ [][DropFindsEntries]_vars
    /\ [][DOMAIN trace_map \subseteq DOMAIN trace_map']_vars

\* a guard with a live guard inside it was dropped first, its captured
\* parent being another identity, and no lookup failed
C22_Witness ==
    /\ hist.last_drop # None
    /\ ~hist.last_drop[1].innermost
    /\ hist.last_drop[1].guard.parent # None
    /\ hist.last_drop[1].guard.parent[1] # hist.last_drop[1].guard.trace_id
    /\ guards # << >>
    /\ ~drop_panicked

\* what a drop leaves alone, the entries of the guard and its parent apart
DropFrame ==
    /\ DOMAIN trace_map' = DOMAIN trace_map
    /\ \A k \in DOMAIN trace_map : trace_map'[k].order = trace_map[k].order
    /\ \A k \in DOMAIN trace_map :
           (k # Dropped.trace_id /\ Some(k) # Dropped.parent) =>
               trace_map'[k] = trace_map[k]
    /\ cpu_freq_cell' = cpu_freq_cell
    /\ start_ts_cell' = start_ts_cell
    /\ TRACE_ID' = TRACE_ID

\* the drop's effect on the entry of the captured parent
DropParentEffect(p) ==
    /\ trace_map'[p].elapsed_exclusive
           = trace_map[p].elapsed_exclusive - hist'.last_drop[1].time
    /\ trace_map'[p].hit_count = trace_map[p].hit_count
    /\ trace_map'[p].elapsed_inclusive = trace_map[p].elapsed_inclusive

\* C23 as stated: a drop changes its own entry's three fields, decreases the
\* captured parent's elapsed_exclusive by the duration and leaves the
\* parent's hit_count and elapsed_inclusive and everything else unchanged.
C23_DropChangesOwnAndParentExclusive ==
    [][Len(guards') < Len(guards) =>
           /\ DropFrame
           /\ Dropped.parent # None => DropParentEffect(Dropped.parent[1])]_vars

\* C23 amended: as stated when the captured parent is another identity; when
\* it is the guard's own identity (direct recursion) the one entry gets
\* hit_count + 1, elapsed_inclusive = saved value + duration, and an
\* unchanged elapsed_exclusive.
C23_DropFrameWithRecursion ==
    [][Len(guards') < Len(guards) =>
           LET id == Dropped.trace_id
               time == hist'.last_drop[1].time
           IN /\ DropFrame
              /\ trace_map'[id].hit_count = trace_map[id].hit_count + 1
              /\ trace_map'[id].elapsed_inclusive
                     = Dropped.old_elapsed_inclusive + time
              /\ trace_map'[id].elapsed_exclusive
                     = IF Dropped.parent = Some(id)
                       THEN trace_map[id].elapsed_exclusive
                       ELSE trace_map[id].elapsed_exclusive + time
              /\ (Dropped.parent # None /\ Dropped.parent # Some(id)) =>
                     DropParentEffect(Dropped.parent[1])]_vars

\* a re-entered guard was dropped, its captured parent being its own
\* identity, while an entry of another identity exists
C23_Witness ==
    /\ hist.last_drop # None
    /\ hist.last_drop[1].guard.parent
           = Some(hist.last_drop[1].guard.trace_id)
    /\ Cardinality(Entries) >= 2
    /\ trace_map[hist.last_drop[1].guard.trace_id].hit_count >= 1

\* C26: in every reachable state, whatever the order of the drops and
\* whether guards are still live, the sum of elapsed_exclusive over the table
\* is the sum of the durations of the dropped guards whose captured parent
\* was None.
C26_SumExclusiveIsRootTime == SumExclusive = hist.root_time

\* an outermost guard was dropped while guards created inside it are live
C26_Witness ==
    /\ hist.last_drop # None
    /\ ~hist.last_drop[1].innermost
    /\ hist.last_drop[1].guard.parent = None
    /\ guards # << >>
    /\ hist.root_time > 0
    /\ \E id \in Entries : trace_map[id].elapsed_exclusive = 0

\* the step is a begin_profile call that reads the start timestamp
FirstBeginStep ==
    /\ hist'.begin_calls = hist.begin_calls + 1
    /\ start_ts_cell = None

\* the step is an end_and_print_profile call that prints
ReportStep ==
    /\ hist'.end_calls = hist.end_calls + 1
    /\ hist'.last_end[1].printed

\* the start timestamp is read after the calibration and the table exists
StartReadAfterCalibration ==
    FirstBeginStep =>
        /\ map_init'
        /\ hist'.calibration # None
        /\ start_ts_cell'[1] > hist'.calibration[1].to

\* the calibration does not overlap the reported interval
CalibrationOutsideTotal ==
    (ReportStep /\ hist'.calibration # None) =>
        \/ hist'.calibration[1].to <= hist'.last_end[1].start
        \/ hist'.last_end[1].end <= hist'.calibration[1].from

\* C24: the first begin_profile reads the start timestamp after the
\* frequency calibration has ended and the table exists, so the calibration
\* never lies inside the interval end - start that end_and_print_profile
\* reports.
C24_CalibrationNotInTotal ==
    [][StartReadAfterCalibration]_vars /\ [][CalibrationOutsideTotal]_vars

\* the step is an end_and_print_profile call that fails its assertion
FailedReportStep ==
    /\ hist'.end_calls = hist.end_calls + 1
    /\ ~hist'.last_end[1].printed

\* a failed call memoizes a start timestamp read after its end reading
FailedReportMemoizesStart ==
    FailedReportStep =>
        /\ start_ts_cell = None
        /\ start_ts_cell' # None
        /\ start_ts_cell'[1] > hist'.last_end[1].end
        /\ hist'.failed_start = start_ts_cell'

\* a memoized start timestamp is never replaced
StartNeverReplaced == start_ts_cell # None => start_ts_cell' = start_ts_cell

\* after a failed call a report counts its total from the failed call's
\* start timestamp
TotalFromFailedStart ==
    (ReportStep /\ hist.failed_start # None) =>
        /\ hist'.last_end[1].start = hist.failed_start[1]
        /\ stdout'[Len(stdout) + 1].cpu_time
               = hist'.last_end[1].end - hist.failed_start[1]

WaitReturned == wait.pc \in {"done", "panicked"}

\* at the loop's exit the wall delta has reached the wait time
WaitedLongEnough ==
    (\/ wait.pc = "loop" /\ ~KeepWaiting(wait.os_elapsed, wait.os_wait_time)
     \/ WaitReturned) =>
        wait.os_elapsed * 1000 >= wait.millis_to_wait * get_os_timer_freq

\* a positive millis_to_wait gives a positive divisor and a result
DivisorPositive ==
    (WaitReturned /\ wait.millis_to_wait >= 1) =>
        /\ wait.os_elapsed > 0
        /\ wait.pc = "done"
        /\ wait.result # None

\* C25: while the OS clock keeps advancing estimate_cpu_freq terminates; at
\* the exit of its busy-wait loop os_elapsed is at least millis_to_wait
\* thousandths of the timer frequency, so for millis_to_wait >= 1 the divisor
\* of the frequency is positive.
C25_BusyWaitTerminates ==
    /\ <>WaitReturned
    /\ []WaitedLongEnough
    /\ []DivisorPositive

\* a wait of two milliseconds or more that ended past its wait time
C25_Witness ==
    /\ wait.pc = "done"
    /\ wait.millis_to_wait >= 2
    /\ wait.os_elapsed > wait.os_wait_time
    /\ wait.result # None

LoopId == SiteId(InstrumentedLoop)

\* the live guards of the loop's identity
LoopGuards(gs) == {i \in 1..Len(gs) : gs[i].trace_id = LoopId}

\* an iteration creates and drops nothing
IterationKeepsGuards ==
    prog'.done # prog.done /\ prog'.done # 0 =>
        /\ guards' = guards
        /\ trace_map' = trace_map
        /\ LoopGuards(guards) # {}

\* the loop's guard is created with no iteration made, and dropped with all
\* iterations made, below it the function's guard still live
LoopGuardAroundLoop ==
    /\ Cardinality(LoopGuards(guards')) > Cardinality(LoopGuards(guards)) =>
           prog'.done = 0
    /\ Cardinality(LoopGuards(guards')) < Cardinality(LoopGuards(guards)) =>
           /\ prog.done = prog.iterations
           /\ Len(guards') = 1
           /\ guards'[1].trace_id = SiteId(InstrumentedFn)

\* loop executions completed: hit_count of the loop's identity
LoopHitsAreExecutions ==
    /\ Cardinality(LoopGuards(guards)) <= 1
    /\ LoopId \in DOMAIN trace_map =>
           trace_map[LoopId].hit_count
               = prog.calls - (IF prog.pc \in {"body", "loop"} THEN 1 ELSE 0)

\* C28: instrument_loop creates one guard per execution of the loop
\* statement, before the first iteration, and drops it when the loop has
\* terminated, before the function's guard is dropped; an execution of k
\* iterations adds 1 to the hit_count of the loop's identity.
C28_OneGuardPerLoopExecution ==
    /\ [][IterationKeepsGuards]_vars
    /\ [][LoopGuardAroundLoop]_vars
    /\ []LoopHitsAreExecutions

\* a call whose loop made two iterations has returned: the loop's hit_count
\* is 1
C28_Witness ==
    /\ prog.pc = "call"
    /\ prog.calls = 1
    /\ prog.iterations = 2
    /\ prog.iterated = 2
    /\ guards = << >>
    /\ LoopId \in DOMAIN trace_map
    /\ trace_map[LoopId].hit_count = 1
====
